---- MODULE Spec2Model ----
(***************************************************************************)
(* gh-search-docs, modelled from src/main.go and src/searchdocs/utils.go:  *)
(* the argument reorderer (SpecReorder), main from flag parsing to the     *)
(* response status (Spec), main from the response body to the end of the   *)
(* output (SpecRender), NormalizeVersion (SpecNormalize) and StringSlice   *)
(* (SpecStringSlice).                                                      *)
(*                                                                         *)
(* A Go string is modelled as the sequence of its characters, each a       *)
(* one-character TLA+ string, so that strings.HasPrefix, strings.Contains, *)
(* strings.Join and strconv.Itoa are computed on the characters.           *)
(***************************************************************************)
EXTENDS Integers, Sequences, FiniteSets, TLC

VARIABLES
    \* ---- reorderArgs(args), src/main.go:92-132 ----
    args,           \* the parameter args []string
    i,              \* the loop cursor (0-based in Go, 1-based here)
    flags,          \* var flags []string
    nonFlags,       \* var nonFlags []string
    result,         \* the returned slice
    rpc,            \* "idle" | "loop" | "returned"
    \* ---- main(), src/main.go:134-488 ----
    fv,             \* the values of the scalar flags of the FlagSet fs
    highlights,     \* var highlights StringSlice
    includes,       \* var includes StringSlice
    toplevel,       \* var toplevel StringSlice
    aggregate,      \* var aggregate StringSlice
    fsArgs,         \* fs.Args(): the arguments left after the flags
    nparsed,        \* flags processed so far by fs.Parse
    pc,             \* position in main
    query,          \* query
    version,        \* version
    params,         \* params url.Values
    requests,       \* calls of http.DefaultClient.Do so far
    status,         \* resp.StatusCode, 0 before a response
    usageShown,     \* fs.Usage() was called
    exitCode,       \* the process exit code, -1 while running
    \* ---- main(), the response and its rendering, src/main.go:307-488 ----
    found,          \* result.Meta.Found.Value
    nHits,          \* len(result.Hits)
    metaPage,       \* result.Meta.Page
    metaSize,       \* result.Meta.Size
    maxResults,     \* maxResults
    usePrettyRendering, \* usePrettyRendering
    renderer,       \* renderer: "nil" or "ok"
    loopI,          \* the cursor i of the render loop (0-based, as in Go)
    item,           \* item := result.Hits[i] of the iteration under way
    block,          \* what that iteration printed for the item
    totalPages,     \* totalPages
    renderFailed,   \* some renderer.Render call of the loop returned an error
    respBody,       \* resp.Body: received (open), read to its end, closed
    \* ---- functions called on their own ----
    nv,             \* a call of searchdocs.NormalizeVersion: argument, the
                    \* outcome of loading the version file, result
    ss,             \* a StringSlice, the values passed to Set so far and the
                    \* errors Set returned
    out             \* what was printed so far, one tag per piece of output

rvars == <<args, i, flags, nonFlags, result, rpc>>

ovars == <<fv, highlights, includes, toplevel, aggregate, fsArgs, nparsed>>

mvars == <<pc, query, version, params, requests, status, usageShown, exitCode>>

dvars == <<found, nHits, metaPage, metaSize, maxResults, usePrettyRendering,
           renderer, loopI, item, block, totalPages, renderFailed>>

hvars == <<nv, ss>>

vars == <<rvars, ovars, mvars, dvars, out, respBody, hvars>>

----------------------------------------------------------------------------
(* Bounds *)

\* longest command line given to reorderArgs
MaxTokens == 4

\* most items on one command line: flag occurrences and remaining arguments
MaxItems == 4

----------------------------------------------------------------------------
(* Go strings *)

\* strings.HasPrefix(s, prefix)
HasPrefix(s, prefix) ==
    /\ Len(s) >= Len(prefix)
    /\ \A k \in 1..Len(prefix) : s[k] = prefix[k]

\* strings.Contains(s, c) for a one-character substring c
Contains(s, c) == \E k \in 1..Len(s) : s[k] = c

\* the sequences over S of length at most n
SeqUpTo(S, n) == UNION {[1..k -> S] : k \in 0..n}

----------------------------------------------------------------------------
(* Tokens of the command line *)

sDebug == <<"-","-","d","e","b","u","g">>
sPlain == <<"-","-","p","l","a","i","n">>
sListVersions == <<"-","-","l","i","s","t","-","v","e","r","s","i","o","n","s">>
sIncludeMatchedContent ==
    <<"-","-","i","n","c","l","u","d","e","-","m","a","t","c","h","e","d","-",
      "c","o","n","t","e","n","t">>
sSize == <<"-","-","s","i","z","e">>
sSizeEq5 == <<"-","-","s","i","z","e","=","5">>
sDebug1 == <<"-","d","e","b","u","g">>
sFive == <<"5">>
sSsh == <<"s","s","h">>
sEmpty == <<>>

\* the tokens a modelled command line is made of
Tokens ==
    {sDebug, sPlain, sListVersions, sIncludeMatchedContent,
     sSize, sSizeEq5, sDebug1, sFive, sSsh, sEmpty}

----------------------------------------------------------------------------
(* Flag values *)

sEn == <<"e","n">>
sJa == <<"j","a">>
sPretty == <<"p","r","e","t","t","y">>
sPlainFormat == <<"p","l","a","i","n">>
sJson == <<"j","s","o","n">>
sFreeProTeam == <<"f","r","e","e","-","p","r","o","-","t","e","a","m">>
sEnterpriseCloud ==
    <<"e","n","t","e","r","p","r","i","s","e","-","c","l","o","u","d">>
sEnterpriseServerAt ==
    <<"e","n","t","e","r","p","r","i","s","e","-","s","e","r","v","e","r","@">>
s313 == <<"3",".","1","3">>
s314 == <<"3",".","1","4">>
s315 == <<"3",".","1","5">>
s316 == <<"3",".","1","6">>
s317 == <<"3",".","1","7">>
s318 == <<"3",".","1","8">>
sGhes == <<"g","h","e","s">>
sKey == <<"k","e","y">>
sUpdated == <<"u","p","d","a","t","e","d">>
sTitle == <<"t","i","t","l","e">>
sContentExplicit ==
    <<"c","o","n","t","e","n","t","_","e","x","p","l","i","c","i","t">>
sIntro == <<"i","n","t","r","o">>
sHeadings == <<"h","e","a","d","i","n","g","s">>
sToplevel == <<"t","o","p","l","e","v","e","l">>
sGetStarted == <<"G","e","t"," ","s","t","a","r","t","e","d">>

\* the values the modelled command lines give to the flags
QueryValues == {sSsh}
SizeValues == {0, 1, 3, 50, 51}
VersionValues ==
    {sEnterpriseCloud, sEnterpriseServerAt \o s317, sEnterpriseServerAt \o s313,
     sEnterpriseServerAt, sGhes}
LanguageValues == {sJa}
PageValues == {-1, 2}
SortValues == {sUpdated}
FormatValues == {sPlainFormat, sJson}
HighlightValues == {sTitle, sContentExplicit}
IncludeValues == {sIntro, sHeadings}
ToplevelValues == {sGetStarted}
AggregateValues == {sToplevel}
PositionalValues == {sSsh, sKey, sEmpty}

\* the defaults the flags are registered with
FlagDefaults ==
    [queryFlag |-> <<>>,
     sizeFlag |-> 5,
     versionFlag |-> sFreeProTeam,
     languageFlag |-> sEn,
     pageFlag |-> 0,
     sortFlag |-> <<>>,
     debugFlag |-> FALSE,
     formatFlag |-> sPretty,
     plainFlag |-> FALSE,
     listVersions |-> FALSE,
     includeMatchedContentFlag |-> FALSE]

\* the keys of the outgoing parameter set
ParamKeys ==
    {"query", "size", "version", "language", "page", "sort", "highlights",
     "include", "toplevel", "aggregate"}

\* params := url.Values{}
EmptyValues == [k \in ParamKeys |-> <<>>]

\* a hit of the response and the block printed for it, outside the loop
NoItem == [Intro |-> <<>>, Highlights |-> [tag |-> "nil", val |-> <<>>]]
NoBlock == [err |-> FALSE, styled |-> FALSE, lines |-> <<>>]

\* resp.Body before a response is received, and once one is
NoBody == [open |-> FALSE, read |-> FALSE, closed |-> FALSE]
OpenBody == [open |-> TRUE, read |-> FALSE, closed |-> FALSE]

\* var result SearchResult and the locals of the rendering, not yet assigned
DisplayIdle ==
    /\ found = 0 /\ nHits = 0 /\ metaPage = 0 /\ metaSize = 0
    /\ maxResults = 0
    /\ usePrettyRendering = FALSE
    /\ renderer = "nil"
    /\ loopI = 0
    /\ item = NoItem
    /\ block = NoBlock
    /\ totalPages = 0
    /\ renderFailed = FALSE
    /\ out = <<>>

\* no call of NormalizeVersion is under way, and an empty StringSlice
NoNormalizeCall ==
    [v |-> <<>>,
     load |-> [err |-> TRUE, SupportedVersions |-> <<>>, LatestVersion |-> <<>>],
     result |-> <<>>,
     done |-> FALSE]
NoSlice == [slice |-> <<>>, calls |-> <<>>, errors |-> <<>>]
HarnessIdle == nv = NoNormalizeCall /\ ss = NoSlice

\* main has not started
MainIdle ==
    /\ fv = FlagDefaults
    /\ highlights = <<>> /\ includes = <<>> /\ toplevel = <<>> /\ aggregate = <<>>
    /\ fsArgs = <<>>
    /\ nparsed = 0
    /\ pc = "idle"
    /\ query = <<>>
    /\ version = <<>>
    /\ params = EmptyValues
    /\ requests = 0
    /\ status = 0
    /\ usageShown = FALSE
    /\ exitCode = -1
    /\ DisplayIdle
    /\ respBody = NoBody

\* reorderArgs is not running
ReorderIdle ==
    /\ args = <<>> /\ i = 1 /\ flags = <<>> /\ nonFlags = <<>> /\ result = <<>>
    /\ rpc = "idle"

----------------------------------------------------------------------------
(* reorderArgs *)

\* mutant: --plain is missing from the boolean flags
boolFlags_MissingPlain == {sDebug, sListVersions, sIncludeMatchedContent}

\* boolFlags := map[string]bool{...}
boolFlags == {sDebug, sPlain, sListVersions, sIncludeMatchedContent}

\* strings.HasPrefix(arg, "-")
IsFlagArg(arg) == HasPrefix(arg, <<"-">>)

\* strings.Contains(arg, "=")
HasEquals(arg) == Contains(arg, "=")

\* mutant: the next argument is taken whatever it starts with
NextIsValue_AnyToken == i + 1 <= Len(args)

\* i+1 < len(args) && !strings.HasPrefix(args[i+1], "-")
NextIsValue == i + 1 <= Len(args) /\ ~IsFlagArg(args[i + 1])

InitReorder ==
    /\ args \in SeqUpTo(Tokens, MaxTokens)
    /\ i = 1
    /\ flags = <<>>
    /\ nonFlags = <<>>
    /\ result = <<>>
    /\ rpc = "loop"
    /\ MainIdle
    /\ HarnessIdle

\* flag with embedded value: flags = append(flags, arg)
StepEmbedded ==
    /\ rpc = "loop" /\ i <= Len(args)
    /\ IsFlagArg(args[i]) /\ HasEquals(args[i])
    /\ flags' = Append(flags, args[i])
    /\ i' = i + 1
    /\ UNCHANGED <<args, nonFlags, result, rpc, ovars, mvars, dvars, out, respBody, hvars>>

\* boolean flag: flags = append(flags, arg)
StepBool ==
    /\ rpc = "loop" /\ i <= Len(args)
    /\ IsFlagArg(args[i]) /\ ~HasEquals(args[i]) /\ args[i] \in boolFlags
    /\ flags' = Append(flags, args[i])
    /\ i' = i + 1
    /\ UNCHANGED <<args, nonFlags, result, rpc, ovars, mvars, dvars, out, respBody, hvars>>

\* mutant: the value taken is appended to nonFlags
StepValueFlagTaken_ValueAsPositional ==
    /\ rpc = "loop" /\ i <= Len(args)
    /\ IsFlagArg(args[i]) /\ ~HasEquals(args[i]) /\ args[i] \notin boolFlags
    /\ i + 1 <= Len(args) /\ ~IsFlagArg(args[i + 1])
    /\ flags' = Append(flags, args[i])
    /\ nonFlags' = Append(nonFlags, args[i + 1])
    /\ i' = i + 2
    /\ UNCHANGED <<args, result, rpc, ovars, mvars, dvars, out, respBody, hvars>>

\* flag that expects a value, and the next argument is taken as its value
StepValueFlagTaken ==
    /\ rpc = "loop" /\ i <= Len(args)
    /\ IsFlagArg(args[i]) /\ ~HasEquals(args[i]) /\ args[i] \notin boolFlags
    /\ NextIsValue
    /\ flags' = Append(Append(flags, args[i]), args[i + 1])
    /\ i' = i + 2
    /\ UNCHANGED <<args, nonFlags, result, rpc, ovars, mvars, dvars, out, respBody, hvars>>

\* flag that expects a value, and there is none to take
StepValueFlagAlone ==
    /\ rpc = "loop" /\ i <= Len(args)
    /\ IsFlagArg(args[i]) /\ ~HasEquals(args[i]) /\ args[i] \notin boolFlags
    /\ ~NextIsValue
    /\ flags' = Append(flags, args[i])
    /\ i' = i + 1
    /\ UNCHANGED <<args, nonFlags, result, rpc, ovars, mvars, dvars, out, respBody, hvars>>

\* non-flag argument: nonFlags = append(nonFlags, arg)
StepNonFlag ==
    /\ rpc = "loop" /\ i <= Len(args)
    /\ ~IsFlagArg(args[i])
    /\ nonFlags' = Append(nonFlags, args[i])
    /\ i' = i + 1
    /\ UNCHANGED <<args, flags, result, rpc, ovars, mvars, dvars, out, respBody, hvars>>

\* mutant: the non-flag arguments are returned first
ReorderReturn_PositionalsFirst ==
    /\ rpc = "loop" /\ i > Len(args)
    /\ result' = nonFlags \o flags
    /\ rpc' = "returned"
    /\ UNCHANGED <<args, i, flags, nonFlags, ovars, mvars, dvars, out, respBody, hvars>>

\* return append(flags, nonFlags...)
ReorderReturn ==
    /\ rpc = "loop" /\ i > Len(args)
    /\ result' = flags \o nonFlags
    /\ rpc' = "returned"
    /\ UNCHANGED <<args, i, flags, nonFlags, ovars, mvars, dvars, out, respBody, hvars>>

NextReorder ==
    \/ StepEmbedded
    \/ StepBool
    \/ StepValueFlagTaken
    \/ StepValueFlagAlone
    \/ StepNonFlag
    \/ ReorderReturn

SpecReorder == InitReorder /\ [][NextReorder]_vars

----------------------------------------------------------------------------
(* Library functions used by main *)

\* func (v Values) Set(key, value string)
ValuesSet(p, key, value) == [p EXCEPT ![key] = <<value>>]

\* func (v Values) Add(key, value string)
ValuesAdd(p, key, value) == [p EXCEPT ![key] = Append(@, value)]

\* for _, x := range list { params.Add(key, x) }
RECURSIVE AddEach(_, _, _)
AddEach(p, key, list) ==
    IF list = <<>> THEN p
    ELSE AddEach(ValuesAdd(p, key, Head(list)), key, Tail(list))

DecimalDigits == <<"0","1","2","3","4","5","6","7","8","9">>

\* strconv.Itoa(n)
RECURSIVE Itoa(_)
Itoa(n) ==
    IF n < 0 THEN <<"-">> \o Itoa(-n)
    ELSE IF n < 10 THEN <<DecimalDigits[n + 1]>>
    ELSE Itoa(n \div 10) \o <<DecimalDigits[(n % 10) + 1]>>

\* strings.Join(elems, sep)
RECURSIVE Join(_, _)
Join(elems, sep) ==
    IF elems = <<>> THEN <<>>
    ELSE IF Len(elems) = 1 THEN elems[1]
    ELSE elems[1] \o sep \o Join(Tail(elems), sep)

\* strings.TrimPrefix(s, prefix)
TrimPrefix(s, prefix) ==
    IF HasPrefix(s, prefix) THEN SubSeq(s, Len(prefix) + 1, Len(s)) ELSE s

\* mutant: a value the slice already holds is not added again
StringSliceSet_SkipsDuplicates(s, value) ==
    IF \E k \in 1..Len(s) : s[k] = value THEN s ELSE Append(s, value)

\* func (s *StringSlice) Set(value string) error: the slice after the call
StringSliceSet(s, value) == Append(s, value)

\* func (s *StringSlice) Set(value string) error: the error returned
StringSliceSetError(s, value) == "nil"

\* func (s *StringSlice) String() string
StringSliceString(s) == Join(s, <<",">>)

----------------------------------------------------------------------------
(* searchdocs: supported versions *)

\* what LoadSupportedVersions returns: an error, or the content of
\* data/supported-versions.json; the workflow that writes the file gives it
\* an empty list and a null latestVersion when no version is supported
LoadFailed == [err |-> TRUE, SupportedVersions |-> <<>>, LatestVersion |-> <<>>]
LoadOutcomes ==
    {LoadFailed,
     [err |-> FALSE, SupportedVersions |-> <<s314, s315, s316, s317>>,
      LatestVersion |-> s317],
     [err |-> FALSE, SupportedVersions |-> <<s315, s316, s317, s318>>,
      LatestVersion |-> s318],
     [err |-> FALSE, SupportedVersions |-> <<>>, LatestVersion |-> <<>>]}

\* hardcodedVersions := []string{"3.14", "3.15", "3.16", "3.17"}
hardcodedVersions == <<s314, s315, s316, s317>>

\* IsVersionSupported(version), the file load giving the outcome load
IsVersionSupported(v, load) ==
    IF load.err
    THEN \E k \in 1..Len(hardcodedVersions) : hardcodedVersions[k] = v
    ELSE \E k \in 1..Len(load.SupportedVersions) : load.SupportedVersions[k] = v

\* mutant: an unsupported version always becomes 3.17
NormalizeVersion_AlwaysUltimate(v, load) ==
    IF v = sFreeProTeam \/ v = sEnterpriseCloud THEN v
    ELSE IF HasPrefix(v, sEnterpriseServerAt)
         THEN LET versionPart == TrimPrefix(v, sEnterpriseServerAt)
              IN  IF IsVersionSupported(versionPart, load) THEN v
                  ELSE sEnterpriseServerAt \o s317
         ELSE sFreeProTeam

\* NormalizeVersion(v), the file loads giving the outcome load
NormalizeVersion(v, load) ==
    IF v = sFreeProTeam \/ v = sEnterpriseCloud THEN v
    ELSE IF HasPrefix(v, sEnterpriseServerAt)
         THEN LET versionPart == TrimPrefix(v, sEnterpriseServerAt)
              IN  IF IsVersionSupported(versionPart, load) THEN v
                  ELSE IF ~load.err /\ load.LatestVersion # <<>>
                       THEN sEnterpriseServerAt \o load.LatestVersion
                       ELSE sEnterpriseServerAt \o s317
         ELSE sFreeProTeam

----------------------------------------------------------------------------
(* main: flag parsing *)

Init ==
    /\ ReorderIdle
    /\ fv = FlagDefaults
    /\ highlights = <<>> /\ includes = <<>> /\ toplevel = <<>> /\ aggregate = <<>>
    /\ fsArgs = <<>>
    /\ nparsed = 0
    /\ pc = "parse"
    /\ query = <<>>
    /\ version = <<>>
    /\ params = EmptyValues
    /\ requests = 0
    /\ status = 0
    /\ usageShown = FALSE
    /\ exitCode = -1
    /\ DisplayIdle
    /\ respBody = NoBody
    /\ HarnessIdle

\* fs.Parse meets one more flag
ParsingFlag == pc = "parse" /\ nparsed < MaxItems

\* fs.Parse sets the scalar flag name to value
SetFlag(name, value) ==
    /\ ParsingFlag
    /\ fv' = [fv EXCEPT ![name] = value]
    /\ nparsed' = nparsed + 1
    /\ UNCHANGED <<highlights, includes, toplevel, aggregate, fsArgs, rvars, mvars, dvars, out, respBody, hvars>>

ParseQuery == \E v \in QueryValues : SetFlag("queryFlag", v)
ParseSize == \E v \in SizeValues : SetFlag("sizeFlag", v)
ParseVersion == \E v \in VersionValues : SetFlag("versionFlag", v)
ParseLanguage == \E v \in LanguageValues : SetFlag("languageFlag", v)
ParsePage == \E v \in PageValues : SetFlag("pageFlag", v)
ParseSort == \E v \in SortValues : SetFlag("sortFlag", v)
ParseDebug == SetFlag("debugFlag", TRUE)
ParseFormat == \E v \in FormatValues : SetFlag("formatFlag", v)
ParsePlain == SetFlag("plainFlag", TRUE)
ParseListVersions == SetFlag("listVersions", TRUE)
ParseIncludeMatchedContent == SetFlag("includeMatchedContentFlag", TRUE)

\* fs.Parse calls Set on the StringSlice of --highlights
ParseHighlights ==
    /\ ParsingFlag
    /\ \E v \in HighlightValues : highlights' = StringSliceSet(highlights, v)
    /\ nparsed' = nparsed + 1
    /\ UNCHANGED <<fv, includes, toplevel, aggregate, fsArgs, rvars, mvars, dvars, out, respBody, hvars>>

ParseInclude ==
    /\ ParsingFlag
    /\ \E v \in IncludeValues : includes' = StringSliceSet(includes, v)
    /\ nparsed' = nparsed + 1
    /\ UNCHANGED <<fv, highlights, toplevel, aggregate, fsArgs, rvars, mvars, dvars, out, respBody, hvars>>

ParseToplevel ==
    /\ ParsingFlag
    /\ \E v \in ToplevelValues : toplevel' = StringSliceSet(toplevel, v)
    /\ nparsed' = nparsed + 1
    /\ UNCHANGED <<fv, highlights, includes, aggregate, fsArgs, rvars, mvars, dvars, out, respBody, hvars>>

ParseAggregate ==
    /\ ParsingFlag
    /\ \E v \in AggregateValues : aggregate' = StringSliceSet(aggregate, v)
    /\ nparsed' = nparsed + 1
    /\ UNCHANGED <<fv, highlights, includes, toplevel, fsArgs, rvars, mvars, dvars, out, respBody, hvars>>

\* fs.Parse returns nil: the remaining arguments are fs.Args()
ParseDone ==
    /\ pc = "parse"
    /\ \E a \in SeqUpTo(PositionalValues, MaxItems - nparsed) : fsArgs' = a
    /\ nparsed' = 0
    /\ pc' = "parsed"
    /\ UNCHANGED <<fv, highlights, includes, toplevel, aggregate, rvars,
                   query, version, params, requests, status, usageShown, exitCode, dvars, out, respBody, hvars>>

----------------------------------------------------------------------------
(* main: from the parsed flags to the request *)

\* os.Exit(code): the process ends at once, deferred calls are not run
Exit(code) == exitCode' = code /\ pc' = "exited"

\* main returns: the deferred resp.Body.Close() runs, the exit code is 0
Return ==
    /\ exitCode' = 0
    /\ pc' = "exited"
    /\ respBody' = [respBody EXCEPT !.closed = TRUE]

\* a runtime panic: the deferred resp.Body.Close() runs while panicking,
\* then the program exits with code 2
Panic ==
    /\ exitCode' = 2
    /\ pc' = "exited"
    /\ respBody' = [respBody EXCEPT !.closed = TRUE]

\* mutant: the fallback list is printed and the exit code is still 0
ListVersions_FallbackExitsZero ==
    /\ pc = "parsed" /\ fv.listVersions
    /\ \E load \in LoadOutcomes :
         IF load.err
         THEN out' = Append(out, "fallback versions") /\ Exit(0)
         ELSE out' = Append(out, "versions") /\ Exit(0)
    /\ UNCHANGED <<rvars, ovars, query, version, params, requests, status,
                   usageShown, dvars, respBody, hvars>>

\* if *listVersions { ... os.Exit(0) }, or os.Exit(1) when the load fails
ListVersions ==
    /\ pc = "parsed" /\ fv.listVersions
    /\ \E load \in LoadOutcomes :
         IF load.err
         THEN out' = Append(out, "fallback versions") /\ Exit(1)
         ELSE out' = Append(out, "versions") /\ Exit(0)
    /\ UNCHANGED <<rvars, ovars, query, version, params, requests, status,
                   usageShown, dvars, respBody, hvars>>

\* mutant: the positional arguments win over --query
ResolvedQuery_PositionalsFirst ==
    IF Len(fsArgs) > 0 THEN Join(fsArgs, <<" ">>) ELSE fv.queryFlag

\* query := *queryFlag; if query == "" && fs.NArg() > 0 { query = Join(...) }
ResolvedQuery ==
    IF fv.queryFlag = <<>> /\ Len(fsArgs) > 0
    THEN Join(fsArgs, <<" ">>)
    ELSE fv.queryFlag

\* the query is resolved; an empty one prints the usage and exits 1
GetQuery ==
    /\ pc = "parsed" /\ ~fv.listVersions
    /\ query' = ResolvedQuery
    /\ IF ResolvedQuery = <<>>
       THEN usageShown' = TRUE /\ Exit(1)
       ELSE usageShown' = usageShown /\ pc' = "size" /\ exitCode' = exitCode
    /\ UNCHANGED <<rvars, ovars, version, params, requests, status, dvars, out, respBody, hvars>>

\* mutant: the lower bound is not checked
SizeOutOfBounds_NoLowerBound == fv.sizeFlag > 50

\* *sizeFlag > 50 or *sizeFlag < 1
SizeOutOfBounds == fv.sizeFlag > 50 \/ fv.sizeFlag < 1

\* the size is validated: out of bounds exits 1
ValidateSize ==
    /\ pc = "size"
    /\ IF SizeOutOfBounds
       THEN Exit(1)
       ELSE pc' = "normalize" /\ exitCode' = exitCode
    /\ UNCHANGED <<rvars, ovars, query, version, params, requests, status,
                   usageShown, dvars, out, respBody, hvars>>

\* version := searchdocs.NormalizeVersion(*versionFlag)
Normalize ==
    /\ pc = "normalize"
    /\ \E load \in LoadOutcomes : version' = NormalizeVersion(fv.versionFlag, load)
    /\ pc' = "build"
    /\ UNCHANGED <<rvars, ovars, query, params, requests, status, usageShown,
                   exitCode, dvars, out, respBody, hvars>>

\* mutant: the version flag is sent as given, not normalized
SetRequired_RawVersion(p) ==
    ValuesSet(ValuesSet(ValuesSet(ValuesSet(p,
        "query", query),
        "size", Itoa(fv.sizeFlag)),
        "version", fv.versionFlag),
        "language", fv.languageFlag)

\* params.Set("query", ...), ("size", ...), ("version", ...), ("language", ...)
SetRequired(p) ==
    ValuesSet(ValuesSet(ValuesSet(ValuesSet(p,
        "query", query),
        "size", Itoa(fv.sizeFlag)),
        "version", version),
        "language", fv.languageFlag)

\* mutant: page 0 is sent too
SetPage_ZeroSent(p) ==
    IF fv.pageFlag >= 0 THEN ValuesSet(p, "page", Itoa(fv.pageFlag)) ELSE p

\* if *pageFlag > 0 { params.Set("page", strconv.Itoa(*pageFlag)) }
SetPage(p) ==
    IF fv.pageFlag > 0 THEN ValuesSet(p, "page", Itoa(fv.pageFlag)) ELSE p

\* if *sortFlag != "" { params.Set("sort", *sortFlag) }
SetSort(p) ==
    IF fv.sortFlag # <<>> THEN ValuesSet(p, "sort", fv.sortFlag) ELSE p

\* if len(highlights) > 0 { for ... params.Add("highlights", h) }
AddHighlights(p) ==
    IF Len(highlights) > 0 THEN AddEach(p, "highlights", highlights) ELSE p

\* mutant: content_explicit is added only when the caller did not give it
AddMatchedContent_Deduplicated(p) ==
    IF /\ fv.includeMatchedContentFlag
       /\ \A k \in 1..Len(p["highlights"]) : p["highlights"][k] # sContentExplicit
    THEN ValuesAdd(p, "highlights", sContentExplicit)
    ELSE p

\* if *includeMatchedContentFlag { params.Add("highlights", "content_explicit") }
AddMatchedContent(p) ==
    IF fv.includeMatchedContentFlag
    THEN ValuesAdd(p, "highlights", sContentExplicit)
    ELSE p

\* mutant: the default is added before the caller's includes too
AddInclude_DefaultAlways(p) ==
    AddEach(ValuesAdd(p, "include",
                      IF fv.includeMatchedContentFlag THEN sToplevel ELSE sIntro),
            "include", includes)

\* the include rule: a default when the caller gave none, else the caller's
AddInclude(p) ==
    IF Len(includes) = 0
    THEN IF fv.includeMatchedContentFlag
         THEN ValuesAdd(p, "include", sToplevel)
         ELSE ValuesAdd(p, "include", sIntro)
    ELSE AddEach(p, "include", includes)

\* if len(toplevel) > 0 { for ... params.Add("toplevel", tl) }
AddToplevel(p) ==
    IF Len(toplevel) > 0 THEN AddEach(p, "toplevel", toplevel) ELSE p

\* if len(aggregate) > 0 { for ... params.Add("aggregate", agg) }
AddAggregate(p) ==
    IF Len(aggregate) > 0 THEN AddEach(p, "aggregate", aggregate) ELSE p

\* the parameter set is built, rule after rule
BuildParams ==
    /\ pc = "build"
    /\ params' =
         AddAggregate(AddToplevel(AddInclude(AddMatchedContent(AddHighlights(
             SetSort(SetPage(SetRequired(EmptyValues))))))))
    /\ pc' = "request"
    /\ UNCHANGED <<rvars, ovars, query, version, requests, status, usageShown,
                   exitCode, dvars, out, respBody, hvars>>

\* the status codes of the modelled responses
StatusCodes == {200, 404, 429}

\* mutant: after a transport error the request is issued again
RequestFails_Retried ==
    /\ pc = "request"
    /\ requests < 2
    /\ requests' = requests + 1
    /\ UNCHANGED <<rvars, ovars, pc, exitCode, query, version, params, status,
                   usageShown, dvars, out, respBody, hvars>>

\* resp, err := http.DefaultClient.Do(req): a transport error exits 1
RequestFails ==
    /\ pc = "request"
    /\ requests' = requests + 1
    /\ Exit(1)
    /\ UNCHANGED <<rvars, ovars, query, version, params, status, usageShown, dvars, out, respBody, hvars>>

\* a response arrives: a status other than 200 exits 1
RequestAnswered ==
    /\ pc = "request"
    /\ requests' = requests + 1
    /\ \E code \in StatusCodes :
         /\ status' = code
         /\ IF code # 200
            THEN Exit(1)
            ELSE pc' = "read" /\ exitCode' = exitCode
    /\ respBody' = OpenBody
    /\ UNCHANGED <<rvars, ovars, query, version, params, usageShown, dvars, out, hvars>>

Next ==
    \/ ParseQuery
    \/ ParseSize
    \/ ParseVersion
    \/ ParseLanguage
    \/ ParsePage
    \/ ParseSort
    \/ ParseDebug
    \/ ParseFormat
    \/ ParsePlain
    \/ ParseListVersions
    \/ ParseIncludeMatchedContent
    \/ ParseHighlights
    \/ ParseInclude
    \/ ParseToplevel
    \/ ParseAggregate
    \/ ParseDone
    \/ ListVersions
    \/ GetQuery
    \/ ValidateSize
    \/ Normalize
    \/ BuildParams
    \/ RequestFails
    \/ RequestAnswered

Spec == Init /\ [][Next]_vars

----------------------------------------------------------------------------
(* The response: the decoded result set and its items *)

\* the largest len(result.Hits) of the modelled responses
MaxHits == 6

\* the largest number of Set calls on one StringSlice
MaxCalls == 4

\* the highlight markers of the API
sMarkOpen == <<"<","m","a","r","k",">">>
sMarkClose == <<"<","/","m","a","r","k",">">>
sEllipsis == <<".",".",".">>

\* strings.Repeat
Repeat(c, n) == [k \in 1..n |-> c]

\* intros of 150 and of 151 bytes
sIntro150 == Repeat("a", 150)
sIntro151 == Repeat("a", 150) \o <<"b">>

\* highlight fragments: markers around the match, and marker text that only
\* appears once a marker inside it is removed
sFragMarked == sMarkOpen \o sSsh \o sMarkClose \o <<" ">> \o sKey
sFragPlain == sKey
sFragSplitOpen == <<"<","m","a">> \o sMarkOpen \o <<"r","k",">">> \o sKey
sFragSplitClose == <<"<","m","a","r","k">> \o sMarkClose \o <<">">>

\* one element of a decoded JSON list: a string, or a value of another type
StringElem(str) == [isString |-> TRUE, s |-> str]
OtherElem == [isString |-> FALSE, s |-> <<>>]

\* item.Highlights: a nil map, a map without "content_explicit", or the
\* value of that key: a string, a list, or a value of another type
HighlightsNil == [tag |-> "nil", val |-> <<>>]
HighlightsNoKey == [tag |-> "nokey", val |-> <<>>]
HighlightsString(str) == [tag |-> "string", val |-> <<StringElem(str)>>]
HighlightsList(elems) == [tag |-> "list", val |-> elems]
HighlightsOther == [tag |-> "other", val |-> <<>>]

SearchItem(intro, hl) == [Intro |-> intro, Highlights |-> hl]

\* the items of the modelled responses
Items ==
    { SearchItem(<<>>, HighlightsNil),
      SearchItem(sKey, HighlightsString(sFragMarked)),
      SearchItem(sIntro150, HighlightsNoKey),
      SearchItem(sIntro151,
                 HighlightsList(<<StringElem(sFragMarked), OtherElem,
                                  StringElem(sFragPlain)>>)),
      SearchItem(<<>>, HighlightsList(<<StringElem(sFragSplitOpen)>>)),
      SearchItem(sIntro151, HighlightsOther),
      SearchItem(sKey, HighlightsString(sFragSplitClose)),
      SearchItem(sIntro150, HighlightsList(<<>>)) }

\* result.Meta of the modelled responses: found, page and size
SearchMeta(f, p, sz) == [Found |-> f, Page |-> p, Size |-> sz]

Metas ==
    { SearchMeta(0, 1, 5), SearchMeta(0, 0, 0),
      SearchMeta(3, 1, 5), SearchMeta(5, 1, 5), SearchMeta(6, 1, 5),
      SearchMeta(22, 1, 5), SearchMeta(22, 5, 5), SearchMeta(22, 1, 0),
      SearchMeta(50, 1, 50), SearchMeta(51, 1, 50), SearchMeta(55, 2, 50) }

----------------------------------------------------------------------------
(* main: the response body, its decoding and the output *)

\* the flags of the modelled invocations that got a 200 response
RenderSizes == {3, 5, 50}
RenderFormats == {sPretty, sPlainFormat, sJson}

\* the state in which a 200 response has arrived
InitRender ==
    /\ ReorderIdle
    /\ \E sz \in RenderSizes, fmt \in RenderFormats,
          dbg \in BOOLEAN, pl \in BOOLEAN, mc \in BOOLEAN :
         fv = [FlagDefaults EXCEPT
                  !.sizeFlag = sz, !.formatFlag = fmt, !.debugFlag = dbg,
                  !.plainFlag = pl, !.includeMatchedContentFlag = mc]
    /\ highlights = <<>>
    /\ includes = <<>>
    /\ toplevel = <<>>
    /\ aggregate = <<>>
    /\ fsArgs = <<sSsh>>
    /\ nparsed = 0
    /\ pc = "read"
    /\ query = sSsh
    /\ version = sFreeProTeam
    /\ params =
         AddAggregate(AddToplevel(AddInclude(AddMatchedContent(AddHighlights(
             SetSort(SetPage(SetRequired(EmptyValues))))))))
    /\ requests = 1
    /\ status = 200
    /\ usageShown = FALSE
    /\ exitCode = -1
    /\ DisplayIdle
    /\ respBody = OpenBody
    /\ HarnessIdle

\* mutant: the body is not dumped once read, whatever --debug is
ReadBody_NoDump ==
    /\ pc = "read"
    /\ \E err \in BOOLEAN :
         IF err
         THEN /\ out' = Append(out, "error")
              /\ respBody' = respBody
              /\ Exit(1)
         ELSE /\ out' = out
              /\ respBody' = [respBody EXCEPT !.read = TRUE]
              /\ pc' = "decode"
              /\ exitCode' = exitCode
    /\ UNCHANGED <<rvars, ovars, query, version, params, requests, status,
                   usageShown, dvars, hvars>>

\* body, err := io.ReadAll(resp.Body): an error is fatal; --debug dumps the body
ReadBody ==
    /\ pc = "read"
    /\ \E err \in BOOLEAN :
         IF err
         THEN /\ out' = Append(out, "error")
              /\ respBody' = respBody
              /\ Exit(1)
         ELSE /\ out' = IF fv.debugFlag THEN Append(out, "raw response") ELSE out
              /\ respBody' = [respBody EXCEPT !.read = TRUE]
              /\ pc' = "decode"
              /\ exitCode' = exitCode
    /\ UNCHANGED <<rvars, ovars, query, version, params, requests, status,
                   usageShown, dvars, hvars>>

\* json.Unmarshal(body, &result): an error exits 1, after the body under --debug
DecodeFails ==
    /\ pc = "decode"
    /\ out' = IF fv.debugFlag
              THEN out \o <<"error parsing response", "response body">>
              ELSE Append(out, "error parsing response")
    /\ Exit(1)
    /\ UNCHANGED <<rvars, ovars, query, version, params, requests, status,
                   usageShown, dvars, respBody, hvars>>

\* json.Unmarshal(body, &result) fills result
Decode ==
    /\ pc = "decode"
    /\ \E meta \in Metas, n \in 0..MaxHits :
         /\ found' = meta.Found
         /\ metaPage' = meta.Page
         /\ metaSize' = meta.Size
         /\ nHits' = n
    /\ pc' = "output"
    /\ UNCHANGED <<rvars, ovars, query, version, params, requests, status,
                   usageShown, exitCode, maxResults, usePrettyRendering,
                   renderer, loopI, item, block, totalPages, renderFailed, out, respBody, hvars>>

\* mutant: --plain wins over --format json
IsJson_UnlessPlain == fv.formatFlag = sJson /\ ~fv.plainFlag

\* *formatFlag == "json"
IsJson == fv.formatFlag = sJson

\* mutant: the zero-results message needs an empty hits list too
NoResults_AndNoHits == found = 0 /\ nHits = 0

\* result.Meta.Found.Value == 0
NoResults == found = 0

\* mutant: the requested size is ignored outside the preview
MaxResults_IgnoresSize ==
    IF fv.sizeFlag = 5 /\ nHits > 5 /\ ~fv.includeMatchedContentFlag
    THEN 5
    ELSE nHits

\* mutant: the requested size is displayed, whatever the number of hits
MaxResults_RequestedSize == fv.sizeFlag

\* maxResults := len(result.Hits), capped by the preview or the requested size
MaxResults ==
    IF fv.sizeFlag = 5 /\ nHits > 5 /\ ~fv.includeMatchedContentFlag
    THEN 5
    ELSE IF fv.sizeFlag < nHits THEN fv.sizeFlag ELSE nHits

\* the renderers NewAutoRendererNoWrap and NewRendererNoWrap can return
Renderers == {"nil", "ok"}

\* the output starts: JSON, the zero-results message, or the found line
\* followed by the choices made before the loop
Output ==
    /\ pc = "output"
    /\ IF IsJson
       THEN /\ out' = Append(out, "json")
            /\ Return
            /\ UNCHANGED <<maxResults, usePrettyRendering, renderer, hvars>>
       ELSE IF NoResults
       THEN /\ out' = Append(out, "no results")
            /\ Return
            /\ UNCHANGED <<maxResults, usePrettyRendering, renderer, hvars>>
       ELSE /\ out' = Append(out, "found")
            /\ maxResults' = MaxResults
            /\ usePrettyRendering' =
                   (~fv.plainFlag /\ fv.formatFlag # sPlainFormat)
            /\ IF ~fv.plainFlag /\ fv.formatFlag # sPlainFormat
               THEN renderer' \in Renderers
               ELSE renderer' = renderer
            /\ pc' = "loop"
            /\ exitCode' = exitCode
            /\ respBody' = respBody
    /\ UNCHANGED <<rvars, ovars, query, version, params, requests, status,
                   usageShown, found, nHits, metaPage, metaSize, loopI, item,
                   block, totalPages, renderFailed, hvars>>

\* strings.ReplaceAll(s, old, new) for a non-empty old: the occurrences are
\* found left to right, without overlap, in s as it was given
RECURSIVE ReplaceAll(_, _, _)
ReplaceAll(s, old, new) ==
    IF Len(s) < Len(old) THEN s
    ELSE IF SubSeq(s, 1, Len(old)) = old
    THEN new \o ReplaceAll(SubSeq(s, Len(old) + 1, Len(s)), old, new)
    ELSE <<Head(s)>> \o ReplaceAll(Tail(s), old, new)

\* one printed line of an item's block
Line(kind, text) == [kind |-> kind, text |-> text]

\* the bullets of a list value: one per element that is a string
RECURSIVE ListBullets(_)
ListBullets(elems) ==
    IF elems = <<>> THEN <<>>
    ELSE (IF Head(elems).isString
          THEN <<Line("bullet", Head(elems).s)>>
          ELSE <<>>) \o ListBullets(Tail(elems))

\* the same with the markers removed from each string
RECURSIVE CleanListBullets(_)
CleanListBullets(elems) ==
    IF elems = <<>> THEN <<>>
    ELSE (IF Head(elems).isString
          THEN <<Line("bullet",
                      ReplaceAll(ReplaceAll(Head(elems).s, sMarkOpen, <<>>),
                                 sMarkClose, <<>>))>>
          ELSE <<>>) \o CleanListBullets(Tail(elems))

\* mutant: only a list value gets bullets, a single string gets none
MarkdownLines_ListOnly(it) ==
    <<Line("title", <<>>), Line("url", <<>>)>>
    \o (IF ~fv.includeMatchedContentFlag /\ it.Intro # <<>>
        THEN <<Line("description",
                    IF Len(it.Intro) > 150
                    THEN SubSeq(it.Intro, 1, 150) \o sEllipsis
                    ELSE it.Intro)>>
        ELSE <<>>)
    \o (IF fv.includeMatchedContentFlag /\ it.Highlights.tag = "list"
        THEN ListBullets(it.Highlights.val)
        ELSE <<>>)
    \o <<Line("blank", <<>>)>>

\* the markdown written to md for one item (pretty rendering)
MarkdownLines(it) ==
    <<Line("title", <<>>), Line("url", <<>>)>>
    \o (IF ~fv.includeMatchedContentFlag /\ it.Intro # <<>>
        THEN <<Line("description",
                    IF Len(it.Intro) > 150
                    THEN SubSeq(it.Intro, 1, 150) \o sEllipsis
                    ELSE it.Intro)>>
        ELSE <<>>)
    \o (IF fv.includeMatchedContentFlag /\ it.Highlights.tag # "nil"
        THEN CASE it.Highlights.tag = "list" -> ListBullets(it.Highlights.val)
               [] it.Highlights.tag = "string" ->
                      <<Line("bullet", it.Highlights.val[1].s)>>
               [] OTHER -> <<>>
        ELSE <<>>)
    \o <<Line("blank", <<>>)>>

\* mutant: the plain description is cut only beyond 151 bytes
PlainLines_Cut151(it) ==
    <<Line("title", <<>>), Line("url", <<>>)>>
    \o (IF ~fv.includeMatchedContentFlag /\ it.Intro # <<>>
        THEN <<Line("description",
                    IF Len(it.Intro) > 151
                    THEN SubSeq(it.Intro, 1, 150) \o sEllipsis
                    ELSE it.Intro)>>
        ELSE <<>>)
    \o (IF fv.includeMatchedContentFlag /\ it.Highlights.tag # "nil"
        THEN CASE it.Highlights.tag = "list" ->
                      CleanListBullets(it.Highlights.val)
               [] it.Highlights.tag = "string" ->
                      <<Line("bullet",
                             ReplaceAll(ReplaceAll(it.Highlights.val[1].s,
                                                   sMarkOpen, <<>>),
                                        sMarkClose, <<>>))>>
               [] OTHER -> <<>>
        ELSE <<>>)
    \o <<Line("blank", <<>>)>>

\* the lines printed for one item (plain text output)
PlainLines(it) ==
    <<Line("title", <<>>), Line("url", <<>>)>>
    \o (IF ~fv.includeMatchedContentFlag /\ it.Intro # <<>>
        THEN <<Line("description",
                    IF Len(it.Intro) > 150
                    THEN SubSeq(it.Intro, 1, 150) \o sEllipsis
                    ELSE it.Intro)>>
        ELSE <<>>)
    \o (IF fv.includeMatchedContentFlag /\ it.Highlights.tag # "nil"
        THEN CASE it.Highlights.tag = "list" ->
                      CleanListBullets(it.Highlights.val)
               [] it.Highlights.tag = "string" ->
                      <<Line("bullet",
                             ReplaceAll(ReplaceAll(it.Highlights.val[1].s,
                                                   sMarkOpen, <<>>),
                                        sMarkClose, <<>>))>>
               [] OTHER -> <<>>
        ELSE <<>>)
    \o <<Line("blank", <<>>)>>

\* one iteration of the loop on the pretty path: the markdown is rendered
\* and printed, or printed as it is when there is no renderer or it fails
RenderPretty ==
    /\ pc = "loop" /\ loopI < maxResults /\ usePrettyRendering
    /\ \E it \in Items, err \in BOOLEAN :
         /\ renderer = "nil" => ~err
         /\ item' = it
         /\ block' = [err |-> err,
                      styled |-> (renderer # "nil" /\ ~err),
                      lines |-> MarkdownLines(it)]
         /\ renderFailed' = (renderFailed \/ err)
    /\ out' = Append(out, "item")
    /\ loopI' = loopI + 1
    /\ UNCHANGED <<rvars, ovars, mvars, found, nHits, metaPage, metaSize,
                   maxResults, usePrettyRendering, renderer, totalPages, respBody, hvars>>

\* one iteration of the loop on the plain path
RenderPlain ==
    /\ pc = "loop" /\ loopI < maxResults /\ ~usePrettyRendering
    /\ \E it \in Items :
         /\ item' = it
         /\ block' = [err |-> FALSE, styled |-> FALSE, lines |-> PlainLines(it)]
    /\ out' = Append(out, "item")
    /\ loopI' = loopI + 1
    /\ UNCHANGED <<rvars, ovars, mvars, found, nHits, metaPage, metaSize,
                   maxResults, usePrettyRendering, renderer, totalPages,
                   renderFailed, respBody, hvars>>

\* mutant: the hint is also printed in matched-content mode
ShowingTop5_AlsoMatched == maxResults = 5 /\ found > 5

\* maxResults == 5 && result.Meta.Found.Value > 5 && !*includeMatchedContentFlag
ShowingTop5 ==
    maxResults = 5 /\ found > 5 /\ ~fv.includeMatchedContentFlag

\* the loop is over: the info about remaining results
ShowRemaining ==
    /\ pc = "loop" /\ loopI >= maxResults
    /\ out' = IF ShowingTop5
              THEN out
                   \o (IF found <= 50
                       THEN <<"top 5: use --size found">>
                       ELSE <<"top 5: use --size 50", "use --page">>)
                   \o <<"use --include-matched-content">>
              ELSE out
    /\ item' = NoItem
    /\ block' = NoBlock
    /\ pc' = "pagination"
    /\ UNCHANGED <<rvars, ovars, query, version, params, requests, status,
                   usageShown, exitCode, found, nHits, metaPage, metaSize,
                   maxResults, usePrettyRendering, renderer, loopI, totalPages,
                   renderFailed, respBody, hvars>>

\* the pagination info; the integer division panics on a zero divisor, and
\* a Go program that panics exits with code 2
ShowPagination ==
    /\ pc = "pagination"
    /\ IF metaSize = 0
       THEN /\ out' = Append(out, "panic: integer divide by zero")
            /\ totalPages' = totalPages
            /\ Panic
       ELSE /\ totalPages' = (found + metaSize - 1) \div metaSize
            /\ out' = IF totalPages' > 1
                      THEN out \o <<"showing page">>
                           \o (IF metaPage < totalPages'
                               THEN <<"use --page next">>
                               ELSE <<>>)
                      ELSE out
            /\ Return
    /\ UNCHANGED <<rvars, ovars, query, version, params, requests, status,
                   usageShown, found, nHits, metaPage, metaSize, maxResults,
                   usePrettyRendering, renderer, loopI, item, block,
                   renderFailed, hvars>>

NextRender ==
    \/ ReadBody
    \/ DecodeFails
    \/ Decode
    \/ Output
    \/ RenderPretty
    \/ RenderPlain
    \/ ShowRemaining
    \/ ShowPagination

SpecRender == InitRender /\ [][NextRender]_vars

----------------------------------------------------------------------------
(* searchdocs.NormalizeVersion called on its own *)

\* the version strings passed to NormalizeVersion
sEnterpriseServer == SubSeq(sEnterpriseServerAt, 1, Len(sEnterpriseServerAt) - 1)
s319 == <<"3",".","1","9">>
NormalizeInputs ==
    {sFreeProTeam, sEnterpriseCloud, sGhes, sEmpty, sKey, sEnterpriseServer,
     sEnterpriseServerAt, sEnterpriseServerAt \o s317 \o <<".","1">>}
    \cup {sEnterpriseServerAt \o x : x \in {s313, s314, s315, s316, s317, s318, s319}}

InitNormalize ==
    /\ ReorderIdle
    /\ MainIdle
    /\ ss = NoSlice
    /\ \E v \in NormalizeInputs, load \in LoadOutcomes :
         nv = [v |-> v, load |-> load, result |-> <<>>, done |-> FALSE]

\* NormalizeVersion(v) is called and returns
CallNormalizeVersion ==
    /\ ~nv.done
    /\ nv' = [nv EXCEPT !.result = NormalizeVersion(nv.v, nv.load),
                        !.done = TRUE]
    /\ UNCHANGED <<rvars, ovars, mvars, dvars, out, respBody, ss>>

NextNormalize == CallNormalizeVersion

SpecNormalize == InitNormalize /\ [][NextNormalize]_vars

----------------------------------------------------------------------------
(* StringSlice used on its own *)

\* the values passed to Set
SliceValues == {sEmpty, sTitle, sIntro}

InitStringSlice ==
    /\ ReorderIdle
    /\ MainIdle
    /\ HarnessIdle

\* one more s.Set(value)
SliceSet ==
    /\ Len(ss.calls) < MaxCalls
    /\ \E value \in SliceValues :
         ss' = [slice |-> StringSliceSet(ss.slice, value),
                calls |-> Append(ss.calls, value),
                errors |-> Append(ss.errors,
                                  StringSliceSetError(ss.slice, value))]
    /\ UNCHANGED <<rvars, ovars, mvars, dvars, out, respBody, nv>>

NextStringSlice == SliceSet

SpecStringSlice == InitStringSlice /\ [][NextStringSlice]_vars

----------------------------------------------------------------------------
(* Claims about reorderArgs *)

\* the token starts with '-'
StartsWithDash(t) == Len(t) > 0 /\ Head(t) = "-"

\* the boolean-flag set named by the specification
BooleanFlagNames == {sDebug, sPlain, sListVersions, sIncludeMatchedContent}

\* a flag that never consumes: it carries '=' or is a boolean flag
NeverConsumes(t) ==
    StartsWithDash(t) /\ ("=" \in {t[k] : k \in 1..Len(t)} \/ t \in BooleanFlagNames)

\* a value-taking flag
TakesValue(t) == StartsWithDash(t) /\ ~NeverConsumes(t)

\* token k of a is the value consumed by the value-taking flag before it
ConsumedAt(a, k) == k > 1 /\ TakesValue(a[k - 1]) /\ ~StartsWithDash(a[k])

\* token k of a belongs to the flags group
InFlagsGroup(a, k) == StartsWithDash(a[k]) \/ ConsumedAt(a, k)

\* the in-order subsequence of a at the indices idx
SubSeqAt(a, idx) ==
    LET n == Cardinality(idx)
        at(j) == CHOOSE k \in idx : Cardinality({m \in idx : m < k}) = j - 1
    IN  [j \in 1..n |-> a[at(j)]]

FlagsPart(a) == SubSeqAt(a, {k \in 1..Len(a) : InFlagsGroup(a, k)})
PositionalsPart(a) == SubSeqAt(a, {k \in 1..Len(a) : ~InFlagsGroup(a, k)})

\* the multiset of the tokens of a
TokenBag(a) ==
    [t \in {a[k] : k \in 1..Len(a)} |-> Cardinality({k \in 1..Len(a) : a[k] = t})]

\* C1: reorderArgs returns flags ++ positionals, flags being the in-order
\* subsequence of the '-' tokens and the values consumed by value-taking
\* flags, positionals the in-order subsequence of the other tokens; the
\* output has the length and the multiset of tokens of the input.
C1_FlagsThenPositionals ==
    rpc = "returned" =>
        /\ result = FlagsPart(args) \o PositionalsPart(args)
        /\ Len(result) = Len(args)
        /\ TokenBag(result) = TokenBag(args)

C1_Witness ==
    /\ rpc = "returned"
    /\ args = <<sSsh, sDebug, sSize, sFive>>
    /\ result = <<sDebug, sSize, sFive, sSsh>>

\* every value-taking flag of a is directly followed by a non-flag token
RECURSIVE CompleteGroups(_)
CompleteGroups(a) ==
    IF a = <<>> THEN TRUE
    ELSE IF TakesValue(Head(a))
         THEN /\ Len(a) >= 2
              /\ ~StartsWithDash(a[2])
              /\ CompleteGroups(SubSeq(a, 3, Len(a)))
         ELSE CompleteGroups(Tail(a))

\* the flag groups F of an interleaving a, concatenated
RECURSIVE GroupsOf(_)
GroupsOf(a) ==
    IF a = <<>> THEN <<>>
    ELSE IF TakesValue(Head(a))
         THEN <<a[1], a[2]>> \o GroupsOf(SubSeq(a, 3, Len(a)))
         ELSE IF StartsWithDash(Head(a))
              THEN <<Head(a)>> \o GroupsOf(Tail(a))
              ELSE GroupsOf(Tail(a))

\* the positional tokens P of an interleaving a
RECURSIVE QueryOf(_)
QueryOf(a) ==
    IF a = <<>> THEN <<>>
    ELSE IF TakesValue(Head(a))
         THEN QueryOf(SubSeq(a, 3, Len(a)))
         ELSE IF StartsWithDash(Head(a))
              THEN QueryOf(Tail(a))
              ELSE <<Head(a)>> \o QueryOf(Tail(a))

\* C2: every interleaving of positional tokens P between complete flag
\* groups F (a boolean flag, a name=value flag, a value-taking flag followed
\* by its non-flag value) is reordered to exactly F ++ P, wherever the
\* positional tokens stand.
C2_QueryPlacementIrrelevant ==
    (rpc = "returned" /\ CompleteGroups(args)) =>
        result = GroupsOf(args) \o QueryOf(args)

C2_Witness ==
    /\ rpc = "returned"
    /\ args = <<sDebug, sSsh, sSize, sFive>>
    /\ CompleteGroups(args)
    /\ result = <<sDebug, sSize, sFive, sSsh>>

\* C3: a flag token that contains '=' or is in the boolean-flag set never
\* consumes the following token: the cursor moves one token on, only the
\* flag is emitted, and a non-flag token directly after such a flag is
\* emitted into positionals.
C3_NoLookahead ==
    [][/\ (rpc = "loop" /\ i <= Len(args) /\ NeverConsumes(args[i])) =>
            /\ i' = i + 1
            /\ flags' = Append(flags, args[i])
            /\ nonFlags' = nonFlags
       /\ (/\ rpc = "loop" /\ i > 1 /\ i <= Len(args)
           /\ NeverConsumes(args[i - 1]) /\ ~StartsWithDash(args[i])) =>
            /\ nonFlags' = Append(nonFlags, args[i])
            /\ flags' = flags]_vars

C3_Witness ==
    /\ rpc = "returned"
    /\ args = <<sSizeEq5, sSsh, sPlain, sFive>>
    /\ result = <<sSizeEq5, sPlain, sSsh, sFive>>

\* C4: a value-taking flag consumes the next token if and only if that
\* token exists and does not start with '-'; the consumed value is emitted
\* right after its flag in flags and never as a positional, and every token
\* before the cursor has been emitted exactly once.
C4_ValueConsumption ==
    /\ [](rpc = "loop" => Len(flags) + Len(nonFlags) = i - 1)
    /\ [][(rpc = "loop" /\ i <= Len(args) /\ TakesValue(args[i])) =>
            IF i < Len(args) /\ ~StartsWithDash(args[i + 1])
            THEN /\ i' = i + 2
                 /\ flags' = flags \o <<args[i], args[i + 1]>>
                 /\ nonFlags' = nonFlags
            ELSE /\ i' = i + 1
                 /\ flags' = flags \o <<args[i]>>
                 /\ nonFlags' = nonFlags]_vars

C4_Witness ==
    /\ rpc = "loop"
    /\ args = <<sSize, sFive, sSize, sDebug>>
    /\ i = 4
    /\ flags = <<sSize, sFive, sSize>>
    /\ nonFlags = <<>>

----------------------------------------------------------------------------
(* Claims about the parameter builder and the checks before it *)

\* the parameter set has been built
ParamsBuilt == pc \in {"request", "read"} \/ requests > 0

\* the caller asked for matched content
MatchedContent == fv.includeMatchedContentFlag

\* the number written in decimal by the digit string s, -1 if s is none
RECURSIVE DecimalValue(_)
DecimalValue(s) ==
    IF s = <<>> THEN -1
    ELSE LET d == {k \in 1..10 : DecimalDigits[k] = s[Len(s)]}
             front == SubSeq(s, 1, Len(s) - 1)
         IN  IF d = {} THEN -1
             ELSE IF front = <<>> THEN (CHOOSE k \in d : TRUE) - 1
             ELSE IF DecimalValue(front) <= 0 THEN -1
             ELSE 10 * DecimalValue(front) + (CHOOSE k \in d : TRUE) - 1

\* C5: the include list is ["toplevel"] with no --include and matched
\* content on, ["intro"] with no --include and matched content off, and the
\* caller's include values in their order otherwise; it is never empty.
C5_IncludeList ==
    ParamsBuilt =>
        /\ (includes = <<>> /\ MatchedContent) => params["include"] = <<sToplevel>>
        /\ (includes = <<>> /\ ~MatchedContent) => params["include"] = <<sIntro>>
        /\ includes # <<>> => params["include"] = includes
        /\ params["include"] # <<>>

C5_Witness ==
    /\ ParamsBuilt
    /\ MatchedContent
    /\ includes = <<sHeadings, sIntro>>
    /\ params["include"] = <<sHeadings, sIntro>>

\* C6: the highlights list is the caller's --highlights values in order,
\* duplicates kept, followed by one "content_explicit" exactly when matched
\* content is on; with matched content off and no highlights it is absent.
C6_HighlightsList ==
    ParamsBuilt =>
        /\ MatchedContent => params["highlights"] = highlights \o <<sContentExplicit>>
        /\ ~MatchedContent => params["highlights"] = highlights
        /\ (~MatchedContent /\ highlights = <<>>) => params["highlights"] = <<>>

C6_Witness ==
    /\ ParamsBuilt
    /\ MatchedContent
    /\ highlights = <<sContentExplicit, sContentExplicit>>
    /\ params["highlights"] = <<sContentExplicit, sContentExplicit, sContentExplicit>>

\* C7: a built parameter set holds exactly one value for query, size,
\* version and language: the resolved non-empty query, the decimal form of
\* the validated size, the normalized version and the --language value,
\* whatever the later rules added.
C7_RequiredParameters ==
    ParamsBuilt =>
        /\ params["query"] = <<query>> /\ query # <<>>
        /\ Len(params["size"]) = 1
        /\ DecimalValue(params["size"][1]) = fv.sizeFlag
        /\ fv.sizeFlag \in 1..50
        /\ params["version"] = <<version>>
        /\ \E load \in LoadOutcomes : version = NormalizeVersion(fv.versionFlag, load)
        /\ params["language"] = <<fv.languageFlag>>

C7_Witness ==
    /\ ParamsBuilt
    /\ fv.pageFlag = 2 /\ toplevel # <<>> /\ aggregate # <<>>
    /\ params["page"] # <<>> /\ params["toplevel"] # <<>> /\ params["aggregate"] # <<>>
    /\ params["size"] = <<sFive>>
    /\ params["language"] = <<sEn>>

\* C8: page is present if and only if --page is greater than 0, sort if and
\* only if --sort is non-empty; when present each has exactly one value, the
\* flag's.
C8_PageAndSort ==
    ParamsBuilt =>
        /\ params["page"] # <<>> <=> fv.pageFlag > 0
        /\ params["page"] # <<>> =>
            /\ Len(params["page"]) = 1
            /\ DecimalValue(params["page"][1]) = fv.pageFlag
        /\ params["sort"] # <<>> <=> fv.sortFlag # <<>>
        /\ params["sort"] # <<>> => params["sort"] = <<fv.sortFlag>>

C8_Witness ==
    /\ ParamsBuilt
    /\ fv.pageFlag = 2 /\ fv.sortFlag = sUpdated
    /\ params["page"] = <<<<"2">>>>
    /\ params["sort"] = <<sUpdated>>

\* the size the caller gave is below 1 or above 50
SizeRejected == fv.sizeFlag < 1 \/ fv.sizeFlag > 50

\* C9 as stated: a size below 1 or above 50 ends the invocation with exit
\* code 1, before the parameter set is built and before any request.
C9_AsStated ==
    (pc = "exited" /\ SizeRejected) =>
        (exitCode = 1 /\ params = EmptyValues /\ requests = 0)

\* C9 (amended): unless --list-versions is set, a size below 1 or above 50
\* ends the invocation with exit code 1; in every case no parameter set is
\* built and no request is issued for such a size, so every issued request
\* carries a size in 1..50.
C9_SizeBounds ==
    /\ (pc = "exited" /\ SizeRejected /\ ~fv.listVersions) => exitCode = 1
    /\ SizeRejected =>
        /\ pc \in {"parse", "parsed", "size", "exited"}
        /\ params = EmptyValues
        /\ requests = 0
    /\ requests > 0 =>
        /\ Len(params["size"]) = 1
        /\ DecimalValue(params["size"][1]) \in 1..50

C9_Witness ==
    /\ pc = "exited"
    /\ fv.sizeFlag = 51
    /\ ~fv.listVersions
    /\ query = sSsh
    /\ ~usageShown
    /\ exitCode = 1

\* the total length of the strings of parts
RECURSIVE TotalLen(_)
TotalLen(parts) == IF parts = <<>> THEN 0 ELSE Len(Head(parts)) + TotalLen(Tail(parts))

\* the strings of parts in order, one space between neighbours
SpaceJoined(parts) ==
    LET n == Len(parts)
        start(j) == TotalLen(SubSeq(parts, 1, j - 1)) + (j - 1)
        owner(k) == {j \in 1..n : start(j) < k /\ k <= start(j) + Len(parts[j])}
    IN  [k \in 1..(TotalLen(parts) + (IF n = 0 THEN 0 ELSE n - 1)) |->
            IF owner(k) = {} THEN " "
            ELSE LET j == CHOOSE j \in owner(k) : TRUE IN parts[j][k - start(j)]]

\* the query of the invocation: --query if non-empty, else the joined words
QueryOfInvocation ==
    IF fv.queryFlag # <<>> THEN fv.queryFlag ELSE SpaceJoined(fsArgs)

\* C10 as stated: an invocation whose query is empty prints the usage and
\* ends with exit code 1.
C10_AsStated ==
    (pc = "exited" /\ QueryOfInvocation = <<>>) => (usageShown /\ exitCode = 1)

\* C10 (amended): the query is --query when non-empty, otherwise the
\* positional tokens joined by single spaces; unless --list-versions is set,
\* an empty query prints the usage and ends the invocation with exit code 1
\* before size validation, parameter building and any request.
C10_QueryResolution ==
    /\ pc \in {"size", "normalize", "build", "request", "read"} =>
        (query = QueryOfInvocation /\ query # <<>>)
    /\ (pc = "exited" /\ ~fv.listVersions) => query = QueryOfInvocation
    /\ (pc = "exited" /\ ~fv.listVersions /\ QueryOfInvocation = <<>>) =>
        (usageShown /\ exitCode = 1)
    /\ (pc \notin {"parse", "parsed"} /\ QueryOfInvocation = <<>>) =>
        (pc = "exited" /\ params = EmptyValues /\ requests = 0)
    /\ usageShown => (QueryOfInvocation = <<>> /\ ~fv.listVersions)

C10_Witness ==
    /\ pc = "exited"
    /\ ~fv.listVersions
    /\ fv.queryFlag = <<>>
    /\ fsArgs = <<sEmpty>>
    /\ fv.sizeFlag = 51
    /\ usageShown
    /\ exitCode = 1

----------------------------------------------------------------------------
(* Claims about --list-versions *)

\* C11: once the flags are parsed with --list-versions set, the query is
\* never resolved, the usage never shown, no parameter built and no request
\* sent, whatever the other flags and positionals; the invocation ends with
\* code 0 having printed the loaded list, or with code 1 having printed the
\* hardcoded fallback list, and with nothing else printed
C11_ListVersionsShortCircuits ==
    (pc # "parse" /\ fv.listVersions) =>
        /\ pc \in {"parsed", "exited"}
        /\ query = <<>>
        /\ ~usageShown
        /\ params = EmptyValues
        /\ requests = 0
        /\ status = 0
        /\ pc = "parsed" => (out = <<>> /\ exitCode = -1)
        /\ pc = "exited" =>
              \/ exitCode = 0 /\ out = <<"versions">>
              \/ exitCode = 1 /\ out = <<"fallback versions">>

\* --list-versions with a size out of bounds and no query: the list is printed
C11_Witness ==
    /\ pc = "exited"
    /\ fv.listVersions
    /\ fv.sizeFlag = 0
    /\ fv.queryFlag = <<>>
    /\ fsArgs = <<>>
    /\ exitCode = 0
    /\ out = <<"versions">>

----------------------------------------------------------------------------
(* Claims about the output of a decoded result set *)

\* the piece of output was printed
Printed(tag) == \E k \in 1..Len(out) : out[k] = tag

\* the number of item blocks printed
ItemCount == Cardinality({k \in 1..Len(out) : out[k] = "item"})

\* the listing was started: the found line was printed
Listing == Printed("found")

\* the listing is over
Listed == Listing /\ pc \in {"pagination", "exited"}

\* the preview branch of count selection
PreviewBranch ==
    fv.sizeFlag = 5 /\ nHits > 5 /\ ~fv.includeMatchedContentFlag

\* the number of items to display, as count selection is specified
SelectedCount ==
    CASE PreviewBranch -> 5
      [] ~PreviewBranch /\ fv.sizeFlag < nHits -> fv.sizeFlag
      [] OTHER -> nHits

\* C12: once the listing starts the number chosen is 5 in the preview branch,
\* else the requested size when below hitCount, else hitCount; the loop never
\* displays more than that, and displays exactly that many when it is over
C12_CountSelection ==
    Listing =>
        /\ maxResults = SelectedCount
        /\ ItemCount <= SelectedCount
        /\ pc = "loop" => ItemCount = loopI
        /\ Listed => ItemCount = SelectedCount

\* the preview branch: 6 hits, the default size, 5 items displayed
C12_Witness ==
    /\ Listed
    /\ PreviewBranch
    /\ nHits = 6
    /\ ItemCount = 5

\* the "Showing top 5 results" hint was printed
HintPrinted ==
    Printed("top 5: use --size found") \/ Printed("top 5: use --size 50")

\* C13 as stated: the hint is printed if and only if the preview branch of
\* count selection was taken
C13_AsStated ==
    Listed => (HintPrinted <=> PreviewBranch)

\* C13: the hint is printed if and only if exactly 5 items were displayed,
\* found is above 5 and matched-content is off; it names the found count up
\* to 50 and --size 50 with --page above, and ends with the matched-content
\* reminder
C13_TopFiveHint ==
    /\ Listed =>
          /\ HintPrinted <=>
                (ItemCount = 5 /\ found > 5 /\ ~fv.includeMatchedContentFlag)
          /\ Printed("top 5: use --size found") => found <= 50
          /\ Printed("top 5: use --size 50") =>
                (found > 50 /\ Printed("use --page"))
          /\ HintPrinted <=> Printed("use --include-matched-content")
    /\ ~Listed => ~HintPrinted

\* the hint after a page of exactly 5 hits, and after a requested size of 50
C13_Witness ==
    /\ Listed
    /\ HintPrinted
    /\ ~PreviewBranch
    /\ fv.sizeFlag = 50
    /\ nHits = 5
    /\ found = 55

\* an iteration of the loop has just printed the block of item
ItemPrinted == pc = "loop" /\ loopI > 0

\* the texts of the lines of that kind in the printed block, in order
RECURSIVE TextsOf(_, _)
TextsOf(lines, kind) ==
    IF lines = <<>> THEN <<>>
    ELSE (IF Head(lines).kind = kind THEN <<Head(lines).text>> ELSE <<>>)
         \o TextsOf(Tail(lines), kind)

\* d is text when it has at most 150 bytes, else its first 150 bytes and "..."
IsDescriptionOf(d, text) ==
    IF Len(text) <= 150
    THEN d = text
    ELSE /\ Len(d) = 153
         /\ \A k \in 1..150 : d[k] = text[k]
         /\ \A k \in 151..153 : d[k] = "."

\* C14: with matched-content off, the block of an item with a non-empty intro
\* has exactly one description, the intro when it has at most 150 bytes and
\* else its first 150 bytes followed by "...", 153 in all, on the pretty path
\* (rendered or not) and on the plain path alike
C14_DescriptionTruncation ==
    (ItemPrinted /\ ~fv.includeMatchedContentFlag /\ item.Intro # <<>>) =>
        /\ Len(TextsOf(block.lines, "description")) = 1
        /\ IsDescriptionOf(TextsOf(block.lines, "description")[1], item.Intro)

\* an intro of 151 bytes printed in plain text, cut to 153 bytes
C14_Witness ==
    /\ ItemPrinted
    /\ ~usePrettyRendering
    /\ ~fv.includeMatchedContentFlag
    /\ item.Intro = sIntro151
    /\ Len(TextsOf(block.lines, "description")[1]) = 153

\* t is the ceiling of f / sz
IsCeiling(t, f, sz) == t * sz >= f /\ (t - 1) * sz < f

\* C15: when a listing is over, total pages is the ceiling of found / page
\* size, the pagination line is printed if and only if it is above 1, and
\* the next-page hint if and only if, in addition, the page is below it
C15_AsStated ==
    (Listing /\ pc = "exited") =>
        \E t \in 0..(found + 1) :
            /\ IsCeiling(t, found, metaSize)
            /\ totalPages = t
            /\ Printed("showing page") <=> t > 1
            /\ Printed("use --page next") <=> (t > 1 /\ metaPage < t)

\* the caller asked for JSON output
JsonRequested == fv.formatFlag = sJson

\* the response was decoded
Decoded ==
    \/ pc \in {"output", "loop", "pagination"}
    \/ pc = "exited" /\ ~Printed("error") /\ ~Printed("error parsing response")

\* what goes to the error stream
StderrTags ==
    {"raw response", "error", "error parsing response", "response body",
     "panic: integer divide by zero", "fallback versions"}

\* what was printed on the standard output, in order
Stdout == SelectSeq(out, LAMBDA t : t \notin StderrTags)

\* C16: in non-JSON output with found = 0, whatever the hits, page and page
\* size of the response: nothing is selected or rendered, and the run ends
\* with code 0 having printed the "no results" message and nothing else
C16_NoResults ==
    (Decoded /\ ~JsonRequested /\ found = 0) =>
        /\ pc \in {"output", "exited"}
        /\ maxResults = 0 /\ loopI = 0 /\ totalPages = 0
        /\ item = NoItem /\ block = NoBlock
        /\ pc = "output" => Stdout = <<>>
        /\ pc = "exited" => (Stdout = <<"no results">> /\ exitCode = 0)

\* found 0 in a response that has 6 hits and no page size
C16_Witness ==
    /\ pc = "exited"
    /\ Decoded
    /\ ~JsonRequested
    /\ found = 0
    /\ nHits = 6
    /\ metaSize = 0
    /\ Stdout = <<"no results">>

\* C17: with --format json, whatever found, --plain and
\* --include-matched-content are: nothing is selected or rendered, and the
\* run ends with code 0 having printed the re-serialized result set only
C17_JsonOnly ==
    (Decoded /\ JsonRequested) =>
        /\ pc \in {"output", "exited"}
        /\ maxResults = 0 /\ loopI = 0 /\ totalPages = 0
        /\ ~usePrettyRendering /\ renderer = "nil"
        /\ item = NoItem /\ block = NoBlock
        /\ pc = "output" => Stdout = <<>>
        /\ pc = "exited" => (Stdout = <<"json">> /\ exitCode = 0)

\* JSON output of a result set with found 0, under --plain and matched-content
C17_Witness ==
    /\ pc = "exited"
    /\ Decoded
    /\ JsonRequested
    /\ found = 0
    /\ fv.plainFlag
    /\ fv.includeMatchedContentFlag
    /\ Stdout = <<"json">>

\* the string fragments of the item's content_explicit highlight, in order
StringFragments(it) ==
    CASE it.Highlights.tag = "string" -> <<it.Highlights.val[1].s>>
      [] it.Highlights.tag = "list" ->
             LET strs == SelectSeq(it.Highlights.val, LAMBDA e : e.isString)
             IN  [k \in 1..Len(strs) |-> strs[k].s]
      [] OTHER -> <<>>

\* a is b with some bytes left out
RECURSIVE IsSubsequence(_, _)
IsSubsequence(a, b) ==
    IF a = <<>> THEN TRUE
    ELSE IF b = <<>> THEN FALSE
    ELSE IF Head(a) = Head(b) THEN IsSubsequence(Tail(a), Tail(b))
    ELSE IsSubsequence(a, Tail(b))

\* C18: in the block of a displayed item, with matched-content off there is
\* no bullet and at most the intro's description (none for an empty intro);
\* with matched-content on there is no description and one bullet per string
\* fragment of content_explicit, in order, for a single string as for a list,
\* and none when the mapping or the field is absent; a bullet is its fragment
\* on the pretty path and its fragment less some bytes on the plain path
C18_IntroOrFragments ==
    ItemPrinted =>
        LET descs == TextsOf(block.lines, "description")
            bullets == TextsOf(block.lines, "bullet")
            frags == StringFragments(item)
        IN  IF ~fv.includeMatchedContentFlag
            THEN /\ bullets = <<>>
                 /\ Len(descs) = IF item.Intro = <<>> THEN 0 ELSE 1
            ELSE /\ descs = <<>>
                 /\ Len(bullets) = Len(frags)
                 /\ item.Highlights.tag \in {"nil", "nokey"} => bullets = <<>>
                 /\ usePrettyRendering => bullets = frags
                 /\ \A k \in 1..Len(frags) : IsSubsequence(bullets[k], frags[k])

\* matched-content on: an item with an intro and a single-string highlight
\* gets one bullet and no description
C18_Witness ==
    /\ ItemPrinted
    /\ fv.includeMatchedContentFlag
    /\ item.Intro = sKey
    /\ item.Highlights.tag = "string"
    /\ TextsOf(block.lines, "description") = <<>>
    /\ Len(TextsOf(block.lines, "bullet")) = 1

\* the marker is in the text at position p
IsAt(text, p, marker) ==
    /\ p + Len(marker) - 1 <= Len(text)
    /\ SubSeq(text, p, p + Len(marker) - 1) = marker

\* the text holds an opening or a closing marker
HasMarker(text) ==
    \E p \in 1..Len(text) :
        IsAt(text, p, sMarkOpen) \/ IsAt(text, p, sMarkClose)

\* C19: on the plain path no printed fragment holds a marker, each being its
\* fragment less some bytes; on the pretty path the fragments are written to
\* the markdown with their markers
C19_AsStated ==
    (ItemPrinted /\ fv.includeMatchedContentFlag) =>
        LET bullets == TextsOf(block.lines, "bullet")
            frags == StringFragments(item)
        IN  /\ Len(bullets) = Len(frags)
            /\ usePrettyRendering => bullets = frags
            /\ ~usePrettyRendering =>
                  \A k \in 1..Len(bullets) :
                      /\ IsSubsequence(bullets[k], frags[k])
                      /\ ~HasMarker(bullets[k])

\* C20: a failed render prints the item's markdown unstyled, each iteration
\* prints one block whatever its render did, and a run in which a render
\* failed still displays every selected item and exits 0
C20_AsStated ==
    /\ (ItemPrinted /\ block.err) =>
          (~block.styled /\ block.lines = MarkdownLines(item))
    /\ (ItemPrinted /\ usePrettyRendering /\ renderer = "ok" /\ ~block.err) =>
          block.styled
    /\ pc = "loop" => ItemCount = loopI
    /\ (renderFailed /\ pc \in {"pagination", "exited"}) =>
          ItemCount = SelectedCount
    /\ (renderFailed /\ pc = "exited") => exitCode = 0

----------------------------------------------------------------------------
(* Claims about the response body, the request and the exit codes *)

\* C21: when the invocation has ended after a response was received, the
\* body was read to its end and then closed
C21_AsStated ==
    (pc = "exited" /\ respBody.open) => (respBody.read /\ respBody.closed)

\* the invocation has not yet come to the request
BeforeRequest ==
    pc \in {"parse", "parsed", "size", "normalize", "build", "request"}

\* the invocation is one that sends a request
RequestDue ==
    /\ ~fv.listVersions
    /\ QueryOfInvocation # <<>>
    /\ fv.sizeFlag \in 1..50

\* C22: at most one request is ever issued; past the request point exactly
\* one was issued if --list-versions is unset, the query is non-empty and the
\* size is within 1..50, and none otherwise; the count only changes by the
\* one step from 0 to 1 at the request point, so nothing is re-issued after
\* a transport error, a non-200 status, a read failure or a decode failure
C22_SingleRequest ==
    /\ [](/\ requests \in {0, 1}
          /\ BeforeRequest => requests = 0
          /\ ~BeforeRequest => (requests = 1 <=> RequestDue))
    /\ [][requests' # requests =>
             (pc = "request" /\ requests = 0 /\ requests' = 1)]_vars

\* a transport error: one request was issued and the invocation has ended
C22_Witness ==
    /\ pc = "exited"
    /\ requests = 1
    /\ status = 0
    /\ exitCode = 1

\* the invocation came to its result output
ReachedOutput == Printed("json") \/ Printed("no results") \/ Printed("found")

\* C23: an invocation that ended having reached its result output, or
\* having printed the version list, has exit code 0; any other ended with
\* exit code 1 and printed no result item
C23_AsStated ==
    pc = "exited" =>
        IF ReachedOutput \/ Printed("versions")
        THEN exitCode = 0
        ELSE exitCode = 1 /\ ItemCount = 0

\* C24: with --debug, once the body is read the raw body is the first thing
\* written, before decoding is attempted, so also when decoding fails (the
\* body is then written once more after the error); a body that could not be
\* read is not dumped; without --debug the raw body is never written
C24_DebugDump ==
    /\ (fv.debugFlag /\ respBody.read) =>
          (Len(out) >= 1 /\ out[1] = "raw response")
    /\ (fv.debugFlag /\ Printed("error parsing response")) =>
          out = <<"raw response", "error parsing response", "response body">>
    /\ ~respBody.read => out \in {<<>>, <<"error">>}
    /\ ~fv.debugFlag =>
          (~Printed("raw response") /\ ~Printed("response body"))
    /\ Cardinality({k \in 1..Len(out) : out[k] = "raw response"}) <= 1

\* --debug and a body that is not JSON: the dump precedes the decode error
C24_Witness ==
    /\ pc = "exited"
    /\ fv.debugFlag
    /\ exitCode = 1
    /\ Len(out) = 3
    /\ out[1] = "raw response"
    /\ out[2] = "error parsing response"

----------------------------------------------------------------------------
(* Claims about NormalizeVersion *)

\* the versions that count as supported after that load of the version file
SupportedSet(load) ==
    IF load.err
    THEN {s314, s315, s316, s317}
    ELSE {load.SupportedVersions[k] : k \in 1..Len(load.SupportedVersions)}

\* v is enterprise-server@X
IsEnterpriseServer(v) ==
    /\ Len(v) >= Len(sEnterpriseServerAt)
    /\ SubSeq(v, 1, Len(sEnterpriseServerAt)) = sEnterpriseServerAt

\* the X of enterprise-server@X
ServerVersion(v) == SubSeq(v, Len(sEnterpriseServerAt) + 1, Len(v))

\* C25 as stated: an unsupported enterprise-server version becomes the latest
\* version of the list, and 3.17 only when the list cannot be loaded, so the
\* result always names a supported version
C25_AsStated ==
    nv.done =>
        /\ nv.v \in {sFreeProTeam, sEnterpriseCloud} => nv.result = nv.v
        /\ (IsEnterpriseServer(nv.v) /\ ServerVersion(nv.v) \in SupportedSet(nv.load))
              => nv.result = nv.v
        /\ (IsEnterpriseServer(nv.v) /\ ServerVersion(nv.v) \notin SupportedSet(nv.load))
              => nv.result = sEnterpriseServerAt \o
                                (IF nv.load.err THEN s317 ELSE nv.load.LatestVersion)
        /\ (~IsEnterpriseServer(nv.v) /\ nv.v \notin {sFreeProTeam, sEnterpriseCloud})
              => nv.result = sFreeProTeam
        /\ nv.result \in {sFreeProTeam, sEnterpriseCloud}
              \cup {sEnterpriseServerAt \o x : x \in SupportedSet(nv.load)}

\* C25 (amended): free-pro-team, enterprise-cloud and a supported
\* enterprise-server@X are returned unchanged; an unsupported
\* enterprise-server@X (an empty X too) becomes enterprise-server@ followed by
\* the latest version the loaded file names, or by 3.17 when the file cannot
\* be loaded or names no latest version; anything else becomes free-pro-team.
\* The result names a supported version unless the loaded file supports none
C25_NormalizeVersion ==
    nv.done =>
        /\ nv.v \in {sFreeProTeam, sEnterpriseCloud} => nv.result = nv.v
        /\ (IsEnterpriseServer(nv.v) /\ ServerVersion(nv.v) \in SupportedSet(nv.load))
              => nv.result = nv.v
        /\ (IsEnterpriseServer(nv.v) /\ ServerVersion(nv.v) \notin SupportedSet(nv.load))
              => nv.result = sEnterpriseServerAt \o
                                (IF nv.load.err \/ nv.load.LatestVersion = <<>>
                                 THEN s317
                                 ELSE nv.load.LatestVersion)
        /\ (~IsEnterpriseServer(nv.v) /\ nv.v \notin {sFreeProTeam, sEnterpriseCloud})
              => nv.result = sFreeProTeam
        /\ SupportedSet(nv.load) # {} =>
              nv.result \in {sFreeProTeam, sEnterpriseCloud}
                  \cup {sEnterpriseServerAt \o x : x \in SupportedSet(nv.load)}

\* the file is loaded, supports no version and names no latest one:
\* enterprise-server@3.13 becomes enterprise-server@3.17
C25_Witness ==
    /\ nv.done
    /\ ~nv.load.err
    /\ nv.load.SupportedVersions = <<>>
    /\ nv.v = sEnterpriseServerAt \o s313
    /\ nv.result = sEnterpriseServerAt \o s317

----------------------------------------------------------------------------
(* Claims about StringSlice *)

\* the values with a comma between each two, built from the last one back
RECURSIVE CommaJoined(_)
CommaJoined(values) ==
    IF values = <<>> THEN <<>>
    ELSE IF Len(values) = 1 THEN values[1]
    ELSE CommaJoined(SubSeq(values, 1, Len(values) - 1))
         \o <<",">> \o values[Len(values)]

\* C26: after any sequence of Set calls on an empty StringSlice the slice is
\* the sequence of the values passed, in call order, duplicates and empty
\* strings included; no call returned an error; and String() is those values
\* with commas between them (the empty string when there was no call)
C26_StringSlice ==
    /\ ss.slice = ss.calls
    /\ Len(ss.errors) = Len(ss.calls)
    /\ \A k \in 1..Len(ss.errors) : ss.errors[k] = "nil"
    /\ StringSliceString(ss.slice) = CommaJoined(ss.calls)
    /\ ss.calls = <<>> => StringSliceString(ss.slice) = <<>>

\* title, the empty string and title again: "title,,title"
C26_Witness ==
    /\ ss.calls = <<sTitle, sEmpty, sTitle>>
    /\ ss.slice = <<sTitle, sEmpty, sTitle>>
    /\ StringSliceString(ss.slice) = sTitle \o <<",", ",">> \o sTitle

----------------------------------------------------------------------------
(* Claims about reorderArgs and the flag parser *)

\* C27: classifying the output of reorderArgs again, by the rules it
\* classified its input with, gives the same flags part and the same
\* positionals: no positional token has become the value of a flag
C27_AsStated ==
    rpc = "returned" =>
        /\ FlagsPart(result) = FlagsPart(args)
        /\ PositionalsPart(result) = PositionalsPart(args)

\* a flag registered as boolean with the parser, spelled with two dashes or
\* with one
ParserBoolean(t) ==
    \E b \in BooleanFlagNames : t = b \/ t = Tail(b)

\* C28: a flag the parser takes as boolean, with one dash or with two, never
\* consumes the token after it: the cursor moves one token on and only the
\* flag is emitted
C28_AsStated ==
    [][(rpc = "loop" /\ i <= Len(args) /\ ParserBoolean(args[i])) =>
           /\ i' = i + 1
           /\ flags' = Append(flags, args[i])
           /\ nonFlags' = nonFlags]_vars

----------------------------------------------------------------------------
(* Claims about the bounds of the listing *)

\* the smaller of two numbers
Min(a, b) == IF a <= b THEN a ELSE b

\* C29: the number of items to display is min(requested size, hitCount),
\* so it is neither negative nor above hitCount, and every index the loop
\* has used is an index of the returned hits
C29_WithinHits ==
    Listing =>
        /\ maxResults = Min(fv.sizeFlag, nHits)
        /\ maxResults >= 0
        /\ maxResults <= nHits
        /\ loopI <= maxResults
        /\ ItemPrinted => (loopI - 1) \in 0..(nHits - 1)

\* matched-content on, the default size and 6 hits: 5 items, the last index 4
C29_Witness ==
    /\ ItemPrinted
    /\ fv.includeMatchedContentFlag
    /\ fv.sizeFlag = 5
    /\ nHits = 6
    /\ maxResults = 5
    /\ loopI = 5

\* C30: a non-JSON invocation that decoded a result set with found > 0 ends
\* without a runtime fault and with exit code 0, whatever the page size
C30_AsStated ==
    (pc = "exited" /\ Decoded /\ ~JsonRequested /\ found > 0) =>
        /\ exitCode = 0
        /\ ~Printed("panic: integer divide by zero")

====
